---- MODULE Spec2Model ----
(***************************************************************************)
(* State machine of the admin dashboard: the PricingManagement component   *)
(* with the plan Registry (`plans`), the single edit session               *)
(* (`editingPlan`) and the handlers that change them; around it the App    *)
(* (login flag), the LoginPage (form and delayed credential check) and     *)
(* the Dashboard (tab selection).                                          *)
(*                                                                         *)
(* A component's state exists while it is mounted.  The variables of an    *)
(* unmounted component hold its initial values, the ones its next mount    *)
(* starts from.  State that only styles the page (sidebarOpen,             *)
(* showPassword) is left out.                                              *)
(*                                                                         *)
(* Prices are JavaScript numbers; they are kept in hundredths (19.99 is    *)
(* Num(1999)) and NaN is a value of its own.  Text the user types is a     *)
(* sequence of one-character strings where the code parses it (the price   *)
(* inputs) and a plain string where the code only stores it.               *)
(***************************************************************************)
EXTENDS Integers, Sequences, FiniteSets, TLC

VARIABLES
    plans,        \* useState: the array of plan objects (the Registry)
    editingPlan,  \* useState: null, or the working copy of the plan in edit
    showAddPlan,  \* useState: visibility flag of the 'Add New Plan' form
    error,        \* the exception the last handler raised, "none" if none
    last,         \* history: the last handler invoked, with its arguments
    before,       \* history: plans and editingPlan when that handler was invoked
    nOps,         \* history: number of PricingManagement handlers invoked so far
    isLoggedIn,   \* App useState: which top-level view is rendered
    activeTab,    \* Dashboard useState: the selected section
    email,        \* LoginPage useState: value of the email input
    password,     \* LoginPage useState: value of the password input
    isLoading,    \* LoginPage useState: a login attempt is being checked
    timers,       \* pending setTimeout callbacks, each with the email and
                  \* password of the render that created it
    alertMessage  \* the window.alert the last handler raised, "" if none

pricingVars == <<plans, editingPlan, showAddPlan, error>>

appVars == <<isLoggedIn, activeTab, email, password, isLoading, timers>>

vars == <<plans, editingPlan, showAddPlan, error, last, before, nOps,
          isLoggedIn, activeTab, email, password, isLoading, timers,
          alertMessage>>

\* Number of handler invocations a behaviour is followed for.
MaxOps == 4

---------------------------------------------------------------------------
\* JavaScript values

null == [isNull |-> TRUE]

NaN == [nan |-> TRUE]

Num(c) == [cents |-> c]

Range(s) == {s[i] : i \in DOMAIN s}

\* plans.filter(plan => plan.id !== planId)
WithoutId(ps, planId) == SelectSeq(ps, LAMBDA plan : plan.id # planId)

\* features.filter((_, index) => index !== featureIndex), index counted from 0
WithoutIndex(s, featureIndex) ==
    LET kept == SelectSeq([i \in 1..Len(s) |-> i - 1],
                          LAMBDA index : index # featureIndex)
    IN  [k \in 1..Len(kept) |-> s[kept[k] + 1]]

Digits == <<"0", "1", "2", "3", "4", "5", "6", "7", "8", "9">>

IsDigit(ch) == \E d \in DOMAIN Digits : Digits[d] = ch

DigitValue(ch) == (CHOOSE d \in DOMAIN Digits : Digits[d] = ch) - 1

\* The longest prefix of s made of digits.
RECURSIVE DigitPrefix(_)
DigitPrefix(s) ==
    IF s = <<>> \/ ~IsDigit(Head(s)) THEN <<>>
    ELSE <<Head(s)>> \o DigitPrefix(Tail(s))

RECURSIVE DigitsToInt(_, _)
DigitsToInt(s, acc) ==
    IF s = <<>> THEN acc ELSE DigitsToInt(Tail(s), 10 * acc + DigitValue(Head(s)))

Drop(s, n) == SubSeq(s, n + 1, Len(s))

\* parseFloat on the value of a type="number" input with step 0.01: an
\* optional sign, digits, an optional point and digits; NaN when no digit
\* can be read (the empty value of a cleared or invalid input).  The result
\* is in hundredths; digits after the second decimal are not read.
parseFloat(s) ==
    LET neg      == s # <<>> /\ Head(s) = "-"
        signed   == s # <<>> /\ Head(s) \in {"-", "+"}
        body     == IF signed THEN Tail(s) ELSE s
        whole    == DigitPrefix(body)
        rest     == Drop(body, Len(whole))
        hasPoint == rest # <<>> /\ Head(rest) = "."
        frac     == IF hasPoint THEN DigitPrefix(Tail(rest)) ELSE <<>>
        frac2    == SubSeq(frac \o <<"0", "0">>, 1, 2)
        mag      == 100 * DigitsToInt(whole, 0) + DigitsToInt(frac2, 0)
    IN  IF whole = <<>> /\ frac = <<>> THEN NaN
        ELSE Num(IF neg THEN 0 - mag ELSE mag)

---------------------------------------------------------------------------
\* Initial state

InitPlans == <<
    [id |-> 1, name |-> "Basic Plan",
     description |-> "Perfect for individuals and small businesses",
     monthlyPrice |-> Num(1999), yearlyPrice |-> Num(1699),
     features |-> <<"1 Chat Application", "Basic Customization", "Email Support">>,
     maxApps |-> 1, isActive |-> TRUE, subscribers |-> 1250,
     icon |-> "Star", color |-> "blue"],
    [id |-> 2, name |-> "Professional Plan",
     description |-> "Ideal for growing businesses",
     monthlyPrice |-> Num(2999), yearlyPrice |-> Num(2499),
     features |-> <<"5 Chat Applications", "Advanced Customization",
                    "Priority Support", "Analytics Dashboard">>,
     maxApps |-> 5, isActive |-> TRUE, subscribers |-> 850,
     icon |-> "Crown", color |-> "purple"],
    [id |-> 3, name |-> "Diamond Plan",
     description |-> "For enterprises and power users",
     monthlyPrice |-> Num(3699), yearlyPrice |-> Num(3399),
     features |-> <<"Unlimited Applications", "Full Customization",
                    "24/7 Support", "Advanced Analytics", "White Label">>,
     maxApps |-> -1, isActive |-> TRUE, subscribers |-> 250,
     icon |-> "Gem", color |-> "amber"] >>

NoOp ==
    [op |-> "none", planId |-> 0, index |-> 0, confirmed |-> FALSE, text |-> "",
     email |-> "", password |-> "", wasLoggedIn |-> FALSE]

Snapshot == [plans |-> plans, editingPlan |-> editingPlan]

InitSnapshot == [plans |-> InitPlans, editingPlan |-> null]

\* PricingManagement as its useState calls create it.
InitPricing ==
    /\ plans = InitPlans
    /\ editingPlan = null
    /\ showAddPlan = FALSE
    /\ error = "none"

\* LoginPage as its useState calls create it, no timer pending.
InitLoginPage ==
    /\ email = ""
    /\ password = ""
    /\ isLoading = FALSE
    /\ timers = <<>>
    /\ alertMessage = ""

\* PricingManagement just mounted: the admin is logged in and has selected
\* the pricing section.
Init ==
    /\ InitPricing
    /\ InitLoginPage
    /\ isLoggedIn = TRUE
    /\ activeTab = "pricing"
    /\ last = [NoOp EXCEPT !.wasLoggedIn = TRUE]
    /\ before = InitSnapshot
    /\ nOps = 0

\* The application just loaded: App renders the LoginPage.
InitApp ==
    /\ InitPricing
    /\ InitLoginPage
    /\ isLoggedIn = FALSE
    /\ activeTab = "home"
    /\ last = NoOp
    /\ before = InitSnapshot
    /\ nOps = 0

---------------------------------------------------------------------------
\* The handlers, as functions from the state they close over (ps = plans,
\* ep = editingPlan) and their arguments to the state they set.

Result(ps, ep, err) == [plans |-> ps, editingPlan |-> ep, error |-> err]

\* Variant: an open session is kept and the click ignored.
handleEditPlan_keepsOpenSession(ps, ep, plan) ==
    IF ep # null THEN Result(ps, ep, "none") ELSE Result(ps, plan, "none")

\* setEditingPlan({ ...plan })
handleEditPlan(ps, ep, plan) == Result(ps, plan, "none")

\* Variant: the map callback returns editingPlan for every plan.
handleSavePlan_replacesAll(ps, ep) ==
    IF ep = null /\ ps # <<>> THEN Result(ps, ep, "TypeError")
    ELSE Result([i \in DOMAIN ps |-> ep], null, "none")

\* Variant: setEditingPlan(null) is missing.
handleSavePlan_keepsSession(ps, ep) ==
    IF ep = null /\ ps # <<>> THEN Result(ps, ep, "TypeError")
    ELSE Result([i \in DOMAIN ps |-> IF ps[i].id = ep.id THEN ep ELSE ps[i]],
                ep, "none")

\* Variant: the saved plan is taken out and pushed at the end.
handleSavePlan_movesToEnd(ps, ep) ==
    IF ep = null /\ ps # <<>> THEN Result(ps, ep, "TypeError")
    ELSE Result(IF ep.id \in {ps[i].id : i \in DOMAIN ps}
                THEN Append(WithoutId(ps, ep.id), ep) ELSE ps,
                null, "none")

\* Variant: the saved plan is rebuilt from the form, subscribers starting at 0.
handleSavePlan_dropsSubscribers(ps, ep) ==
    IF ep = null /\ ps # <<>> THEN Result(ps, ep, "TypeError")
    ELSE Result([i \in DOMAIN ps |->
                    IF ps[i].id = ep.id THEN [ep EXCEPT !.subscribers = 0]
                    ELSE ps[i]],
                null, "none")

\* plans.map(plan => plan.id === editingPlan.id ? editingPlan : plan):
\* reading editingPlan.id throws a TypeError when editingPlan is null and
\* the callback runs at all, and then neither setter is reached.
handleSavePlan(ps, ep) ==
    IF ep = null /\ ps # <<>> THEN Result(ps, ep, "TypeError")
    ELSE Result([i \in DOMAIN ps |-> IF ps[i].id = ep.id THEN ep ELSE ps[i]],
                null, "none")

\* Variant: Cancel writes the working copy like Save.
handleCancelEdit_commits(ps, ep) ==
    Result([i \in DOMAIN ps |-> IF ps[i].id = ep.id THEN ep ELSE ps[i]],
           null, "none")

\* setEditingPlan(null)
handleCancelEdit(ps, ep) == Result(ps, null, "none")

\* Variant: the answer of window.confirm is not looked at.
handleDeletePlan_unconfirmed(ps, ep, planId, confirmed) ==
    Result(WithoutId(ps, planId), ep, "none")

\* Variant: planId is taken as the plan's position, plans.splice(planId - 1, 1).
handleDeletePlan_byPosition(ps, ep, planId, confirmed) ==
    IF confirmed
    THEN Result(WithoutIndex(ps, planId - 1), ep, "none")
    ELSE Result(ps, ep, "none")

\* window.confirm(...) answers `confirmed`.
handleDeletePlan(ps, ep, planId, confirmed) ==
    IF confirmed
    THEN Result(WithoutId(ps, planId), ep, "none")
    ELSE Result(ps, ep, "none")

\* Variant: isActive is set to false instead of negated.
handleTogglePlan_deactivates(ps, ep, planId) ==
    Result([i \in DOMAIN ps |->
               IF ps[i].id = planId
               THEN [ps[i] EXCEPT !.isActive = FALSE]
               ELSE ps[i]],
           ep, "none")

handleTogglePlan(ps, ep, planId) ==
    Result([i \in DOMAIN ps |->
               IF ps[i].id = planId
               THEN [ps[i] EXCEPT !.isActive = ~ps[i].isActive]
               ELSE ps[i]],
           ep, "none")

\* Variant: the feature is put first, [feature, ...editingPlan.features].
addFeature_prepends(ps, ep, planId, feature) ==
    IF ep # null /\ ep.id = planId
    THEN Result(ps, [ep EXCEPT !.features = <<feature>> \o ep.features], "none")
    ELSE Result(ps, ep, "none")

\* Variant: the planId is not compared with the session's id.
addFeature_anySession(ps, ep, planId, feature) ==
    IF ep # null
    THEN Result(ps, [ep EXCEPT !.features = Append(ep.features, feature)], "none")
    ELSE Result(ps, ep, "none")

addFeature(ps, ep, planId, feature) ==
    IF ep # null /\ ep.id = planId
    THEN Result(ps, [ep EXCEPT !.features = Append(ep.features, feature)], "none")
    ELSE Result(ps, ep, "none")

\* Variant: featureIndex is taken to count from 1.
removeFeature_fromOne(ps, ep, planId, featureIndex) ==
    IF ep # null /\ ep.id = planId
    THEN Result(ps, [ep EXCEPT !.features = WithoutIndex(ep.features, featureIndex - 1)],
                "none")
    ELSE Result(ps, ep, "none")

removeFeature(ps, ep, planId, featureIndex) ==
    IF ep # null /\ ep.id = planId
    THEN Result(ps, [ep EXCEPT !.features = WithoutIndex(ep.features, featureIndex)],
                "none")
    ELSE Result(ps, ep, "none")

\* The inline onChange handlers of the card in edit; ep is not null there.
onChangeName(ps, ep, value) == Result(ps, [ep EXCEPT !.name = value], "none")

onChangeDescription(ps, ep, value) ==
    Result(ps, [ep EXCEPT !.description = value], "none")

onChangeMonthlyPrice(ps, ep, value) ==
    Result(ps, [ep EXCEPT !.monthlyPrice = parseFloat(value)], "none")

onChangeYearlyPrice(ps, ep, value) ==
    Result(ps, [ep EXCEPT !.yearlyPrice = parseFloat(value)], "none")

\* newFeatures[index] = e.target.value, index counted from 0
onChangeFeature(ps, ep, index, value) ==
    Result(ps, [ep EXCEPT !.features = [ep.features EXCEPT ![index + 1] = value]],
           "none")

---------------------------------------------------------------------------
\* What the user can type or pass

NameInputs == {"", "Team Plan"}

DescriptionInputs == {"For teams"}

\* Values of a price input: cleared, negative, and a valid amount.
PriceInputs == {<<>>, <<"-", "5">>, <<"2", "5", ".", "5">>}

FeatureInputs == {"Single Sign-On"}

\* The literal the 'Add Feature' button passes.
NewFeature == "New Feature"

\* Plan ids a caller can name: those of the initial plans and one no plan has.
PlanIdInputs == {InitPlans[i].id : i \in DOMAIN InitPlans} \cup {Len(InitPlans) + 1}

\* Plan objects a caller can hold: the current ones and those of the initial
\* render (stale after an edit, absent after a delete).
PlanInputs == Range(plans) \cup Range(InitPlans)

\* Feature indices a caller can pass: those of the working copy, one below
\* and two above.
IndexInputs ==
    -1 .. (IF editingPlan = null THEN 1 ELSE Len(editingPlan.features) + 1)

---------------------------------------------------------------------------
\* Steps

\* App: isLoggedIn ? <Dashboard onLogout={handleLogout} />
\*               : <LoginPage onLogin={handleLogin} />
View == IF isLoggedIn THEN "Dashboard" ELSE "LoginPage"

\* Dashboard: the component the switch on activeTab returns.
renderContent(tab) ==
    CASE tab = "home" -> "DashboardHome"
      [] tab = "pricing" -> "PricingManagement"
      [] tab = "users" -> "UserManagement"
      [] tab = "buttons" -> "ChatButtons"
      [] tab = "settings" -> "Settings"
      [] OTHER -> "DashboardHome"

PricingMounted == View = "Dashboard" /\ renderContent(activeTab) = "PricingManagement"

Op(name, planId, index, confirmed, text) ==
    [op |-> name, planId |-> planId, index |-> index, confirmed |-> confirmed,
     text |-> text, email |-> "", password |-> "", wasLoggedIn |-> isLoggedIn]

\* One handler runs to completion: the state it computed is rendered.
Apply(r, l) ==
    /\ PricingMounted
    /\ nOps < MaxOps
    /\ plans' = r.plans
    /\ editingPlan' = r.editingPlan
    /\ error' = r.error
    /\ last' = l
    /\ before' = Snapshot
    /\ nOps' = nOps + 1
    /\ alertMessage' = ""
    /\ UNCHANGED showAddPlan
    /\ UNCHANGED appVars

\* const isEditing = editingPlan && editingPlan.id === plan.id
isEditing(plan) == editingPlan # null /\ editingPlan.id = plan.id

\* const currentPlan = isEditing ? editingPlan : plan
currentPlan(plan) == IF isEditing(plan) THEN editingPlan ELSE plan

\* Some card of the grid is rendered in edit mode.
CardInEdit == \E i \in DOMAIN plans : isEditing(plans[i])

---------------------------------------------------------------------------
\* The events the rendered page offers (specification Spec)

\* Edit button: on every card that is not in edit mode.
ClickEdit ==
    \E i \in DOMAIN plans :
        /\ ~isEditing(plans[i])
        /\ Apply(handleEditPlan(plans, editingPlan, plans[i]),
                 Op("handleEditPlan", plans[i].id, 0, FALSE, ""))

\* Variant: the Save button is rendered on every card, in edit mode or not.
ClickSave_onEveryCard ==
    /\ plans # <<>>
    /\ Apply(handleSavePlan(plans, editingPlan),
             Op("handleSavePlan",
                IF editingPlan = null THEN 0 ELSE editingPlan.id, 0, FALSE, ""))

\* Save button: on the card in edit mode.
ClickSave ==
    /\ CardInEdit
    /\ Apply(handleSavePlan(plans, editingPlan),
             Op("handleSavePlan", editingPlan.id, 0, FALSE, ""))

\* Cancel button: on the card in edit mode.
ClickCancel ==
    /\ CardInEdit
    /\ Apply(handleCancelEdit(plans, editingPlan),
             Op("handleCancelEdit", editingPlan.id, 0, FALSE, ""))

\* Variant: the Delete button is rendered on the card in edit mode too.
ClickDelete_onEveryCard ==
    \E i \in DOMAIN plans, confirmed \in BOOLEAN :
        Apply(handleDeletePlan(plans, editingPlan, plans[i].id, confirmed),
              Op("handleDeletePlan", plans[i].id, 0, confirmed, ""))

\* Delete button: on every card that is not in edit mode; the user answers
\* the confirmation prompt either way.
ClickDelete ==
    \E i \in DOMAIN plans, confirmed \in BOOLEAN :
        /\ ~isEditing(plans[i])
        /\ Apply(handleDeletePlan(plans, editingPlan, plans[i].id, confirmed),
                 Op("handleDeletePlan", plans[i].id, 0, confirmed, ""))

\* Switch: on every card.
ClickToggle ==
    \E i \in DOMAIN plans :
        Apply(handleTogglePlan(plans, editingPlan, plans[i].id),
              Op("handleTogglePlan", plans[i].id, 0, FALSE, ""))

\* 'Add Feature' button: on the card in edit mode.
ClickAddFeature ==
    \E i \in DOMAIN plans :
        /\ isEditing(plans[i])
        /\ Apply(addFeature(plans, editingPlan, plans[i].id, NewFeature),
                 Op("addFeature", plans[i].id, 0, FALSE, NewFeature))

\* X button: on every feature row of the card in edit mode.
ClickRemoveFeature ==
    \E i \in DOMAIN plans :
        /\ isEditing(plans[i])
        /\ \E index \in 0 .. Len(currentPlan(plans[i]).features) - 1 :
               Apply(removeFeature(plans, editingPlan, plans[i].id, index),
                     Op("removeFeature", plans[i].id, index, FALSE, ""))

TypeName ==
    /\ CardInEdit
    /\ \E value \in NameInputs :
           Apply(onChangeName(plans, editingPlan, value),
                 Op("onChangeName", editingPlan.id, 0, FALSE, value))

TypeDescription ==
    /\ CardInEdit
    /\ \E value \in DescriptionInputs :
           Apply(onChangeDescription(plans, editingPlan, value),
                 Op("onChangeDescription", editingPlan.id, 0, FALSE, value))

TypeMonthlyPrice ==
    /\ CardInEdit
    /\ \E value \in PriceInputs :
           Apply(onChangeMonthlyPrice(plans, editingPlan, value),
                 Op("onChangeMonthlyPrice", editingPlan.id, 0, FALSE, ""))

TypeYearlyPrice ==
    /\ CardInEdit
    /\ \E value \in PriceInputs :
           Apply(onChangeYearlyPrice(plans, editingPlan, value),
                 Op("onChangeYearlyPrice", editingPlan.id, 0, FALSE, ""))

TypeFeature ==
    /\ CardInEdit
    /\ \E index \in 0 .. Len(editingPlan.features) - 1, value \in FeatureInputs :
           Apply(onChangeFeature(plans, editingPlan, index, value),
                 Op("onChangeFeature", editingPlan.id, index, FALSE, value))

\* 'Add New Plan' button: setShowAddPlan(true); nothing reads the flag.
ClickAddPlan ==
    /\ PricingMounted
    /\ nOps < MaxOps
    /\ showAddPlan' = TRUE
    /\ error' = "none"
    /\ last' = Op("setShowAddPlan", 0, 0, FALSE, "")
    /\ before' = Snapshot
    /\ nOps' = nOps + 1
    /\ alertMessage' = ""
    /\ UNCHANGED <<plans, editingPlan>>
    /\ UNCHANGED appVars

\* The working-copy edits of the card in edit mode.
TypeField ==
    \/ TypeName
    \/ TypeDescription
    \/ TypeMonthlyPrice
    \/ TypeYearlyPrice
    \/ TypeFeature

Next ==
    \/ ClickEdit
    \/ ClickSave
    \/ ClickCancel
    \/ ClickDelete
    \/ ClickToggle
    \/ ClickAddFeature
    \/ ClickRemoveFeature
    \/ TypeField
    \/ ClickAddPlan

Spec == Init /\ [][Next]_vars

---------------------------------------------------------------------------
\* The handlers called with any argument (specification SpecApi)

CallEditPlan ==
    \E plan \in PlanInputs :
        Apply(handleEditPlan(plans, editingPlan, plan),
              Op("handleEditPlan", plan.id, 0, FALSE, ""))

CallSavePlan ==
    Apply(handleSavePlan(plans, editingPlan), Op("handleSavePlan", 0, 0, FALSE, ""))

CallCancelEdit ==
    Apply(handleCancelEdit(plans, editingPlan), Op("handleCancelEdit", 0, 0, FALSE, ""))

CallDeletePlan ==
    \E planId \in PlanIdInputs, confirmed \in BOOLEAN :
        Apply(handleDeletePlan(plans, editingPlan, planId, confirmed),
              Op("handleDeletePlan", planId, 0, confirmed, ""))

CallTogglePlan ==
    \E planId \in PlanIdInputs :
        Apply(handleTogglePlan(plans, editingPlan, planId),
              Op("handleTogglePlan", planId, 0, FALSE, ""))

CallAddFeature ==
    \E planId \in PlanIdInputs, feature \in FeatureInputs :
        Apply(addFeature(plans, editingPlan, planId, feature),
              Op("addFeature", planId, 0, FALSE, feature))

CallRemoveFeature ==
    \E planId \in PlanIdInputs, featureIndex \in IndexInputs :
        Apply(removeFeature(plans, editingPlan, planId, featureIndex),
              Op("removeFeature", planId, featureIndex, FALSE, ""))

NextApi ==
    \/ CallEditPlan
    \/ CallSavePlan
    \/ CallCancelEdit
    \/ CallDeletePlan
    \/ CallTogglePlan
    \/ CallAddFeature
    \/ CallRemoveFeature
    \/ TypeField

SpecApi == Init /\ [][NextApi]_vars

---------------------------------------------------------------------------
\* App, LoginPage and Dashboard (specification SpecApp)

\* The credentials the delayed check compares with.
AdminEmail == "dmposhy04@gmail.com"

AdminPassword == "A123456789a"

\* The password LoginPage's header comment documents.
DocumentedPassword == "admin123"

\* alert('...'): invalid credentials
InvalidCredentials == "Invalid credentials"

EmailInputs == {"", AdminEmail, "user@example.com"}

PasswordInputs == {"", AdminPassword, DocumentedPassword}

TabInputs == {"home", "pricing", "users", "buttons", "settings"}

\* Variant: the check accepts when either field matches.
CredentialsMatch_either(e, p) == e = AdminEmail \/ p = AdminPassword

\* email === 'dmposhy04@gmail.com' && password === 'A123456789a'
CredentialsMatch(e, p) == e = AdminEmail /\ p = AdminPassword

\* setIsLoggedIn(success)
handleLogin(success) == success

\* setIsLoggedIn(false)
handleLogout == FALSE

LoginOp(name, e, p) ==
    [Op(name, 0, 0, FALSE, "") EXCEPT !.email = e, !.password = p]

\* onChange={(e) => setEmail(e.target.value)}
TypeEmail ==
    /\ View = "LoginPage"
    /\ \E value \in EmailInputs :
           /\ email' = value
           /\ last' = LoginOp("setEmail", value, "")
    /\ alertMessage' = ""
    /\ UNCHANGED <<pricingVars, before, nOps>>
    /\ UNCHANGED <<isLoggedIn, activeTab, password, isLoading, timers>>

\* onChange={(e) => setPassword(e.target.value)}
TypePassword ==
    /\ View = "LoginPage"
    /\ \E value \in PasswordInputs :
           /\ password' = value
           /\ last' = LoginOp("setPassword", "", value)
    /\ alertMessage' = ""
    /\ UNCHANGED <<pricingVars, before, nOps>>
    /\ UNCHANGED <<isLoggedIn, activeTab, email, isLoading, timers>>

\* Variant: the submit button is not disabled while an attempt is checked.
Submit_whileLoading ==
    /\ View = "LoginPage"
    /\ email # "" /\ password # ""
    /\ isLoading' = TRUE
    /\ timers' = Append(timers, [email |-> email, password |-> password])
    /\ last' = LoginOp("handleSubmit", email, password)
    /\ alertMessage' = ""
    /\ UNCHANGED <<pricingVars, before, nOps>>
    /\ UNCHANGED <<isLoggedIn, activeTab, email, password>>

\* handleSubmit: the form submits when both required inputs are filled and
\* the submit button is not disabled; the callback handed to setTimeout
\* closes over the email and password of this render.
Submit ==
    /\ View = "LoginPage"
    /\ ~isLoading
    /\ email # "" /\ password # ""
    /\ isLoading' = TRUE
    /\ timers' = Append(timers, [email |-> email, password |-> password])
    /\ last' = LoginOp("handleSubmit", email, password)
    /\ alertMessage' = ""
    /\ UNCHANGED <<pricingVars, before, nOps>>
    /\ UNCHANGED <<isLoggedIn, activeTab, email, password>>

\* Variant: the callback reads the inputs as they are when it runs.
LoginTimeout_readsInputs ==
    /\ timers # <<>>
    /\ timers' = Tail(timers)
    /\ last' = LoginOp("loginTimeout", Head(timers).email, Head(timers).password)
    /\ IF CredentialsMatch(email, password)
       THEN /\ isLoggedIn' = handleLogin(TRUE)
            /\ activeTab' = "home"
            /\ email' = ""
            /\ password' = ""
            /\ alertMessage' = ""
       ELSE /\ alertMessage' = InvalidCredentials
            /\ UNCHANGED <<isLoggedIn, activeTab, email, password>>
    /\ isLoading' = FALSE
    /\ UNCHANGED <<pricingVars, before, nOps>>

\* Variant: setIsLoading(false) is reached only after onLogin(true).
LoginTimeout_keepsLoading ==
    /\ timers # <<>>
    /\ timers' = Tail(timers)
    /\ last' = LoginOp("loginTimeout", Head(timers).email, Head(timers).password)
    /\ IF CredentialsMatch(Head(timers).email, Head(timers).password)
       THEN /\ isLoggedIn' = handleLogin(TRUE)
            /\ activeTab' = "home"
            /\ email' = ""
            /\ password' = ""
            /\ alertMessage' = ""
            /\ isLoading' = FALSE
       ELSE /\ alertMessage' = InvalidCredentials
            /\ UNCHANGED <<isLoggedIn, activeTab, email, password, isLoading>>
    /\ UNCHANGED <<pricingVars, before, nOps>>

\* The setTimeout callback: onLogin(true) replaces the LoginPage by a
\* newly mounted Dashboard; otherwise the alert is raised; then
\* setIsLoading(false).
LoginTimeout ==
    /\ timers # <<>>
    /\ timers' = Tail(timers)
    /\ last' = LoginOp("loginTimeout", Head(timers).email, Head(timers).password)
    /\ IF CredentialsMatch(Head(timers).email, Head(timers).password)
       THEN /\ isLoggedIn' = handleLogin(TRUE)
            /\ activeTab' = "home"
            /\ email' = ""
            /\ password' = ""
            /\ alertMessage' = ""
       ELSE /\ alertMessage' = InvalidCredentials
            /\ UNCHANGED <<isLoggedIn, activeTab, email, password>>
    /\ isLoading' = FALSE
    /\ UNCHANGED <<pricingVars, before, nOps>>

\* A navigation button: setActiveTab(item.id).  Leaving the pricing
\* section unmounts PricingManagement and its state is gone; `before` then
\* keeps the Registry and session that were left.
SelectTab ==
    /\ View = "Dashboard"
    /\ \E tab \in TabInputs :
           /\ activeTab' = tab
           /\ last' = Op("setActiveTab", 0, 0, FALSE, tab)
           /\ IF PricingMounted /\ renderContent(tab) # "PricingManagement"
              THEN /\ plans' = InitPlans
                   /\ editingPlan' = null
                   /\ showAddPlan' = FALSE
              ELSE UNCHANGED <<plans, editingPlan, showAddPlan>>
    /\ before' = IF PricingMounted THEN Snapshot ELSE before
    /\ error' = "none"
    /\ alertMessage' = ""
    /\ UNCHANGED <<nOps, isLoggedIn, email, password, isLoading, timers>>

\* Logout button: onLogout; the Dashboard and the section it shows are
\* unmounted and a new LoginPage is mounted.
ClickLogout ==
    /\ View = "Dashboard"
    /\ isLoggedIn' = handleLogout
    /\ activeTab' = "home"
    /\ plans' = InitPlans
    /\ editingPlan' = null
    /\ showAddPlan' = FALSE
    /\ error' = "none"
    /\ last' = Op("handleLogout", 0, 0, FALSE, "")
    /\ before' = InitSnapshot
    /\ alertMessage' = ""
    /\ UNCHANGED <<nOps, email, password, isLoading, timers>>

NextApp ==
    \/ TypeEmail
    \/ TypePassword
    \/ Submit
    \/ LoginTimeout
    \/ SelectTab
    \/ ClickLogout
    \/ Next

SpecApp == InitApp /\ [][NextApp]_vars

\* The same with the timer: a callback handed to setTimeout is run by the
\* event loop once its delay has passed, whatever the user does meanwhile.
SpecAppFair == InitApp /\ [][NextApp]_vars /\ WF_vars(LoginTimeout)

---------------------------------------------------------------------------
\* Vocabulary of the properties

PlanIds(ps) == {ps[i].id : i \in DOMAIN ps}

\* The operations that edit the working copy.
WorkingCopyOps ==
    {"addFeature", "removeFeature", "onChangeName", "onChangeDescription",
     "onChangeMonthlyPrice", "onChangeYearlyPrice", "onChangeFeature"}

SessionWasOpen == before.editingPlan # null

\* The working copy differed from the Registry entry it was cloned from in a
\* field only a working-copy edit changes.
WorkingCopyWasEdited ==
    /\ SessionWasOpen
    /\ \E i \in DOMAIN before.plans :
           /\ before.plans[i].id = before.editingPlan.id
           /\ \/ before.plans[i].name # before.editingPlan.name
              \/ before.plans[i].features # before.editingPlan.features
              \/ before.plans[i].monthlyPrice # before.editingPlan.monthlyPrice

\* The ids of the plans in display order.
IdSeq(ps) == [i \in DOMAIN ps |-> ps[i].id]

\* plans.reduce((sum, plan) => sum + plan.subscribers, 0)
RECURSIVE TotalSubscribers(_)
TotalSubscribers(ps) ==
    IF ps = <<>> THEN 0 ELSE Head(ps).subscribers + TotalSubscribers(Tail(ps))

\* addFeature / removeFeature was called for the plan whose session was open.
OnOpenSession ==
    /\ last.op \in {"addFeature", "removeFeature"}
    /\ SessionWasOpen
    /\ before.editingPlan.id = last.planId

IsValidPrice(v) == v # NaN /\ v.cents >= 0

IsValidPlan(plan) ==
    /\ plan.name # ""
    /\ IsValidPrice(plan.monthlyPrice)
    /\ IsValidPrice(plan.yearlyPrice)

---------------------------------------------------------------------------
\* C1: in every reachable state no two plans of the Registry have the same
\* id, whatever sequence of edit, save, cancel, delete, toggle, addFeature
\* and removeFeature calls led there.
C1_UniqueIds ==
    \A i, j \in DOMAIN plans : plans[i].id = plans[j].id => i = j

\* A save has just replaced an entry by an edited working copy, in a
\* Registry a delete has already shortened.
C1_Witness ==
    /\ last.op = "handleSavePlan"
    /\ WorkingCopyWasEdited
    /\ plans # before.plans
    /\ Len(plans) < Len(InitPlans)

\* C2: handleEditPlan, each working-copy edit after it, and handleCancelEdit
\* all leave the Registry exactly as it was, so the Registry after the
\* cancel is the Registry before the edit began; the cancel leaves no
\* session open.
C2_CancelLeavesRegistry ==
    /\ last.op \in {"handleEditPlan", "handleCancelEdit"} \cup WorkingCopyOps
          => plans = before.plans
    /\ last.op = "handleCancelEdit" => editingPlan = null

\* A session whose working copy had been edited has just been cancelled.
C2_Witness ==
    /\ last.op = "handleCancelEdit"
    /\ WorkingCopyWasEdited
    /\ plans = before.plans
    /\ editingPlan = null

\* C3: handleSavePlan with a session open puts the working copy in place of
\* exactly the entries whose id is the session's id, keeps every other
\* entry and the length, and closes the session; handleCancelEdit with no
\* session open changes nothing.
C3_SaveReplacesEntry ==
    /\ (last.op = "handleSavePlan" /\ SessionWasOpen) =>
          /\ error = "none"
          /\ editingPlan = null
          /\ Len(plans) = Len(before.plans)
          /\ \A i \in DOMAIN before.plans :
                 plans[i] = IF before.plans[i].id = before.editingPlan.id
                            THEN before.editingPlan
                            ELSE before.plans[i]
    /\ (last.op = "handleCancelEdit" /\ ~SessionWasOpen) =>
          /\ plans = before.plans
          /\ editingPlan = before.editingPlan

\* A save has just written an edited working copy into the Registry.
C3_Witness ==
    /\ last.op = "handleSavePlan"
    /\ WorkingCopyWasEdited
    /\ before.editingPlan \in Range(plans)
    /\ before.editingPlan \notin Range(before.plans)
    /\ editingPlan = null

\* C4: handleSavePlan with a working copy that has an empty name or a
\* negative or NaN price fails with a ValidationError, leaves the Registry
\* unchanged and keeps the session open; so every plan of the Registry has
\* a non-empty name and non-negative prices.
C4_CommitValidates ==
    /\ (last.op = "handleSavePlan" /\ SessionWasOpen
           /\ ~IsValidPlan(before.editingPlan)) =>
          /\ error = "ValidationError"
          /\ plans = before.plans
          /\ editingPlan = before.editingPlan
    /\ \A i \in DOMAIN plans : IsValidPlan(plans[i])

\* C5: handleTogglePlan on an id of the Registry negates isActive of the
\* plan with that id, changes no other field, no other plan and not the
\* session; toggling the same id again gives back the Registry as it was
\* before the first toggle.
C5_ToggleInvolution ==
    (last.op = "handleTogglePlan" /\ last.planId \in PlanIds(before.plans)) =>
        /\ Len(plans) = Len(before.plans)
        /\ \A i \in DOMAIN before.plans :
               plans[i] = IF before.plans[i].id = last.planId
                          THEN [before.plans[i] EXCEPT
                                   !.isActive = ~before.plans[i].isActive]
                          ELSE before.plans[i]
        /\ editingPlan = before.editingPlan
        /\ handleTogglePlan(plans, editingPlan, last.planId).plans = before.plans

\* The second of two toggles of one plan has just restored the initial
\* Registry.
C5_Witness ==
    /\ last.op = "handleTogglePlan"
    /\ nOps = 2
    /\ plans = InitPlans
    /\ before.plans # InitPlans

\* C6: handleDeletePlan removes the plan with the given id and no other
\* plan when the prompt is confirmed, and changes neither the Registry nor
\* the session when it is declined; the session is unchanged either way.
C6_DeleteOnConfirm ==
    last.op = "handleDeletePlan" =>
        /\ editingPlan = before.editingPlan
        /\ IF last.confirmed
           THEN /\ last.planId \notin PlanIds(plans)
                /\ Range(plans) =
                      {plan \in Range(before.plans) : plan.id # last.planId}
                /\ Len(plans) = Len(before.plans) - 1
           ELSE plans = before.plans

\* A confirmed delete has just removed a plan.
C6_Witness ==
    /\ last.op = "handleDeletePlan"
    /\ last.confirmed
    /\ last.planId \in PlanIds(before.plans)
    /\ last.planId \notin PlanIds(plans)

\* C7: handleDeletePlan with an id no plan of the Registry has, confirmed
\* or not, leaves the Registry as it was.
C7_DeleteAbsentId ==
    (last.op = "handleDeletePlan" /\ last.planId \notin PlanIds(before.plans)) =>
        plans = before.plans

\* A confirmed delete has just been given the id of a plan deleted earlier.
C7_Witness ==
    /\ last.op = "handleDeletePlan"
    /\ last.confirmed
    /\ last.planId \in PlanIds(InitPlans)
    /\ last.planId \notin PlanIds(before.plans)
    /\ Len(plans) = Len(before.plans)

\* C8: the session slot holds nothing or one working copy; handleEditPlan
\* puts a copy of the Registry's plan with the given id in the slot,
\* whatever the slot held, and writes nothing to the Registry.
C8_EditReplacesSession ==
    /\ editingPlan = null \/ editingPlan.id \in PlanIds(InitPlans)
    /\ last.op = "handleEditPlan" =>
          /\ plans = before.plans
          /\ editingPlan \in Range(plans)
          /\ editingPlan.id = last.planId

\* Edit has just been clicked on one plan while an edited working copy of
\* another plan was open.
C8_Witness ==
    /\ last.op = "handleEditPlan"
    /\ WorkingCopyWasEdited
    /\ before.editingPlan.id # last.planId
    /\ editingPlan.id = last.planId

\* C9: addFeature, removeFeature and the inline edits leave the Registry
\* as it was; addFeature and removeFeature change no field of the working
\* copy but features, and change nothing at all when no session is open or
\* the session is for another plan id.
C9_OnlyWorkingCopy ==
    /\ last.op \in WorkingCopyOps => plans = before.plans
    /\ (last.op \in {"addFeature", "removeFeature"} /\ SessionWasOpen) =>
          editingPlan = [before.editingPlan EXCEPT !.features = editingPlan.features]
    /\ (last.op \in {"addFeature", "removeFeature"}
           /\ (~SessionWasOpen \/ before.editingPlan.id # last.planId)) =>
          editingPlan = before.editingPlan

\* addFeature has just been called for a plan other than the one in edit.
C9_Witness ==
    /\ last.op = "addFeature"
    /\ SessionWasOpen
    /\ before.editingPlan.id # last.planId
    /\ last.planId \in PlanIds(plans)

OutOfBounds ==
    /\ last.op = "removeFeature"
    /\ SessionWasOpen
    /\ last.index < 0 \/ last.index >= Len(before.editingPlan.features)

\* C10 as stated: removeFeature with an index outside the working copy's
\* features fails with an IndexError and leaves the features unchanged.
C10_IndexError ==
    OutOfBounds =>
        /\ error = "IndexError"
        /\ editingPlan.features = before.editingPlan.features

\* C10 as amended: removeFeature with an index outside the working copy's
\* features raises no error and leaves the working copy, its features and
\* the Registry unchanged.
C10_OutOfBoundsIsNoOp ==
    OutOfBounds =>
        /\ error = "none"
        /\ editingPlan = before.editingPlan
        /\ plans = before.plans

\* removeFeature has just been called on the plan in edit with an index
\* past the end of its features.
C10_Witness ==
    /\ OutOfBounds
    /\ before.editingPlan.id = last.planId
    /\ last.index >= Len(before.editingPlan.features)

\* C11 as stated: handleEditPlan on a plan whose id no plan of the Registry
\* has fails with a NotFoundError, opens no session for that id and leaves
\* the Registry unchanged.
C11_EditAbsentFails ==
    (last.op = "handleEditPlan" /\ last.planId \notin PlanIds(before.plans)) =>
        /\ error = "NotFoundError"
        /\ editingPlan = null \/ editingPlan.id # last.planId
        /\ plans = before.plans

\* C12 as stated: the create entry point (the 'Add New Plan' button) either
\* appends one plan with an id no plan had, keeping the others in place, or
\* fails with a ValidationError and leaves the size of the Registry.
C12_CreateAppends ==
    last.op = "setShowAddPlan" =>
        \/ /\ Len(plans) = Len(before.plans) + 1
           /\ SubSeq(plans, 1, Len(before.plans)) = before.plans
           /\ plans[Len(plans)].id \notin PlanIds(before.plans)
        \/ /\ error = "ValidationError"
           /\ Len(plans) = Len(before.plans)

\* C16: whenever a session is open, its id is the id of a plan of the
\* Registry, whatever the page's events did.
C16_SessionPlanInRegistry ==
    editingPlan # null => editingPlan.id \in PlanIds(plans)

\* A plan has just been deleted while a session for another plan was open.
C16_Witness ==
    /\ last.op = "handleDeletePlan"
    /\ last.confirmed
    /\ Len(plans) < Len(before.plans)
    /\ editingPlan # null

\* C17 as stated: after handleSavePlan every plan's isActive is what it was
\* immediately before the save, so a toggle made during the session stays.
C17_ToggleSurvivesCommit ==
    (last.op = "handleSavePlan" /\ SessionWasOpen) =>
        /\ Len(plans) = Len(before.plans)
        /\ \A i \in DOMAIN plans : plans[i].isActive = before.plans[i].isActive

\* C18: every operation keeps the plans that remain in the order they had;
\* toggle and save keep every plan at its position.
C18_OrderPreserved ==
    /\ IdSeq(plans) =
          SelectSeq(IdSeq(before.plans), LAMBDA id : id \in PlanIds(plans))
    /\ last.op \in {"handleTogglePlan", "handleSavePlan"} =>
          IdSeq(plans) = IdSeq(before.plans)

\* An edited working copy of a plan that is not the last one has just been
\* saved.
C18_Witness ==
    /\ last.op = "handleSavePlan"
    /\ WorkingCopyWasEdited
    /\ Len(plans) > 1
    /\ before.editingPlan.id # plans[Len(plans)].id
    /\ before.editingPlan \in Range(plans)

\* C19: on the open session, addFeature gives the previous features with
\* the new one appended last, and removeFeature with an index of the
\* features gives the previous features without the element at that index,
\* the others in their order.
C19_FeatureSequence ==
    /\ (OnOpenSession /\ last.op = "addFeature") =>
          editingPlan.features = before.editingPlan.features \o <<last.text>>
    /\ (OnOpenSession /\ last.op = "removeFeature" /\ ~OutOfBounds) =>
          editingPlan.features =
              SubSeq(before.editingPlan.features, 1, last.index)
              \o SubSeq(before.editingPlan.features, last.index + 2,
                        Len(before.editingPlan.features))

\* A feature that is neither the first nor the last has just been removed.
C19_Witness ==
    /\ OnOpenSession
    /\ last.op = "removeFeature"
    /\ last.index > 0
    /\ last.index < Len(before.editingPlan.features) - 1
    /\ Len(editingPlan.features) = Len(before.editingPlan.features) - 1

\* C20: every plan of the Registry had its id and its subscribers before
\* the operation; but for a delete every plan keeps them at its position;
\* the sum of the subscribers changes only by a confirmed delete.
C20_IdAndSubscribersFixed ==
    /\ \A i \in DOMAIN plans : \E j \in DOMAIN before.plans :
           /\ before.plans[j].id = plans[i].id
           /\ before.plans[j].subscribers = plans[i].subscribers
    /\ last.op # "handleDeletePlan" =>
          /\ Len(plans) = Len(before.plans)
          /\ \A i \in DOMAIN plans :
                 /\ plans[i].id = before.plans[i].id
                 /\ plans[i].subscribers = before.plans[i].subscribers
    /\ TotalSubscribers(plans) # TotalSubscribers(before.plans) =>
          last.op = "handleDeletePlan" /\ last.confirmed

\* An edited working copy has just been saved over its plan.
C20_Witness ==
    /\ last.op = "handleSavePlan"
    /\ WorkingCopyWasEdited
    /\ plans # before.plans
    /\ TotalSubscribers(plans) = TotalSubscribers(before.plans)

\* C21: Save, Cancel, 'Add Feature' and the X of a feature row are clicked
\* only on the card of a plan of the Registry whose session is open, so
\* handleSavePlan never runs with editingPlan null, and no handler the page
\* can invoke raises an exception.
C21_NoExceptionFromPage ==
    /\ error = "none"
    /\ last.op \in {"handleSavePlan", "handleCancelEdit", "addFeature",
                    "removeFeature"} =>
          /\ SessionWasOpen
          /\ before.editingPlan.id = last.planId
          /\ last.planId \in PlanIds(before.plans)

\* After a login and a visit of the pricing section, Save has just been
\* clicked on the card in edit of a Registry a delete had shortened.
C21_Witness ==
    /\ last.op = "handleSavePlan"
    /\ SessionWasOpen
    /\ before.editingPlan.id = last.planId
    /\ Len(before.plans) < Len(InitPlans)
    /\ editingPlan = null
    /\ error = "none"

\* C22: at most one login attempt is pending: isLoading is true exactly
\* while a timer is pending, it turns true only by a submit and false only
\* by the delayed check, and no step starts a timer while isLoading is true.
C22_OneAttemptPending ==
    /\ [](/\ Len(timers) <= 1
          /\ isLoading <=> timers # <<>>
          /\ isLoading => View = "LoginPage")
    /\ [][/\ (~isLoading /\ isLoading') =>
                  (last'.op = "handleSubmit" /\ Len(timers') = 1)
          /\ (isLoading /\ ~isLoading') =>
                  (last'.op = "loginTimeout" /\ timers' = <<>>)
          /\ isLoading => (Len(timers') <= Len(timers))]_vars

\* The user has just typed into a field while the attempt submitted before
\* is pending.
C22_Witness ==
    /\ isLoading
    /\ Len(timers) = 1
    /\ last.op \in {"setEmail", "setPassword"}
    /\ email # timers[1].email \/ password # timers[1].password

\* C23: the pending attempt holds the email and password the inputs had
\* when it was submitted, typing during the delay leaves it as it is, and
\* the delayed check logs in or alerts by those values alone.
C23_OutcomeFixedAtSubmit ==
    [][/\ (Len(timers') > Len(timers)) =>
              (timers'[Len(timers')] = [email |-> email, password |-> password])
       /\ (Len(timers') = Len(timers)) => (timers' = timers)
       /\ (Len(timers') < Len(timers)) =>
              (/\ isLoggedIn' <=>
                     CredentialsMatch(Head(timers).email, Head(timers).password)
               /\ (alertMessage' = InvalidCredentials) <=>
                     ~CredentialsMatch(Head(timers).email, Head(timers).password))]_vars

\* An attempt submitted with other credentials has just been rejected
\* although the inputs were changed to the accepted ones during the delay.
C23_Witness ==
    /\ last.op = "loginTimeout"
    /\ ~CredentialsMatch(last.email, last.password)
    /\ CredentialsMatch(email, password)
    /\ ~isLoggedIn
    /\ alertMessage = InvalidCredentials

\* C24: with the timer firing, a submit of the accepted credentials leads
\* to the Dashboard being rendered, and a submit of any other credentials
\* leads to the alert raised, isLoading false and the LoginPage still
\* rendered.
C24_AttemptResolves ==
    /\ (last.op = "handleSubmit" /\ CredentialsMatch(last.email, last.password))
          ~> (isLoggedIn /\ View = "Dashboard")
    /\ (last.op = "handleSubmit" /\ ~CredentialsMatch(last.email, last.password))
          ~> (/\ alertMessage = InvalidCredentials
              /\ ~isLoading
              /\ View = "LoginPage")

\* A rejected attempt has just resolved: the form is filled and the submit
\* button enabled again.
C24_Witness ==
    /\ last.op = "loginTimeout"
    /\ alertMessage = InvalidCredentials
    /\ ~isLoading
    /\ timers = <<>>
    /\ View = "LoginPage"
    /\ email # "" /\ password # ""

\* C13 as stated: when a navigation button has brought the pricing section
\* back, the Registry is the one that was left, with the changes made to it.
C13_RegistrySurvivesNavigation ==
    (last.op = "setActiveTab" /\ PricingMounted) => plans = before.plans

\* C14: the Dashboard is rendered exactly when isLoggedIn; isLoggedIn is
\* false at the start, turns true only by the delayed check of an attempt
\* submitted with the email and the password the code compares with, is
\* false with the alert raised after the check of any other attempt, and
\* turns false only by the logout.
C14_LoginGate ==
    /\ View = "Dashboard" <=> isLoggedIn
    /\ last.op = "none" => ~isLoggedIn
    /\ (isLoggedIn /\ ~last.wasLoggedIn) =>
          /\ last.op = "loginTimeout"
          /\ last.email = AdminEmail
          /\ last.password = AdminPassword
    /\ last.op = "loginTimeout" =>
          IF last.email = AdminEmail /\ last.password = AdminPassword
          THEN isLoggedIn /\ alertMessage = ""
          ELSE ~isLoggedIn /\ alertMessage = InvalidCredentials
    /\ last.op = "handleLogout" => ~isLoggedIn
    /\ (~isLoggedIn /\ last.wasLoggedIn) => last.op = "handleLogout"

\* The admin, logged in by a checked attempt, has just logged out.
C14_Witness ==
    /\ last.op = "handleLogout"
    /\ last.wasLoggedIn
    /\ ~isLoggedIn
    /\ View = "LoginPage"

\* C15 as stated: the check of an attempt submitted with the documented
\* credentials logs the admin in and the Dashboard is rendered.
C15_DocumentedCredentials ==
    (last.op = "loginTimeout" /\ last.email = AdminEmail
        /\ last.password = DocumentedPassword) =>
        isLoggedIn /\ View = "Dashboard"

====
